---- MODULE Spec2Model ----
\* A model of the teo MongoDB connector: the connection's transaction probe,
\* the transaction handles with their shared session and committed flag, the
\* driver calls the handlers issue, and the create / update write paths.
EXTENDS Integers, Sequences, FiniteSets, TLC

\* ---------------------------------------------------------------- bounds
MaxHandles == 2
MaxWrites == 2
MaxOperand == 2
MaxRows == 2
MaxRuns == 2
MaxDeclared == 2
MaxLive == 2
MaxLen == 2

\* ------------------------------------------------- connection and handles
\* Option::None of MongoDBTransaction.owned_session; sessions are numbered 1..
None == 0

NoCall == [handle |-> 0, op |-> "none"]

VARIABLES
    supports_transaction, \* MongoDBConnection.supports_transaction
    handles,              \* the MongoDBTransaction values handed out, in order
    flags,                \* the Arc<AtomicBool> cells the handles' committed point at
    sessions,             \* the driver sessions behind the OwnedSession values
    store,                \* per transaction (None: outside any): its writes visible in the database
    issued,               \* the number of writes sent to the driver so far
    inflight,             \* per session: the driver call in flight on it, or NoCall
    commit_returned       \* handles on which commit() has returned Ok

lifecycle_vars == <<supports_transaction, handles, flags, sessions, store,
                    issued, inflight, commit_returned>>

VARIABLES
    is_new,               \* Object::is_new()
    keys_for_save,        \* Object::keys_for_save(), in order
    value,                \* the object's value per field name (Object::get_value)
    property_value,       \* per property: what get_property_value yields
    atomic_updater_map,   \* Object.inner.atomic_updater_map: field name -> updator
    stored,               \* Option<Document>: what is stored under the object's identifier
    buckets,              \* update_object's set, unset, inc, mul and push once collected
    sent,                 \* the driver call save_object made, or NoSend
    result                \* what save_object returned

NoSend == [op |-> "none"]
NoBuckets == [collected |-> FALSE]
NoResult == [kind |-> "none"]

object_vars == <<is_new, keys_for_save, value, property_value, atomic_updater_map,
                 stored, buckets, sent, result>>

VARIABLES
    finder,               \* the finder Value handed to find_many / aggregate
    cursor,               \* what the aggregation pipeline emits, in order
    declared,             \* Model::indexes of the migrated model, in order
    live,                 \* the collection's indexes on the server, in list_indexes order
    commands,             \* the index commands migrate has sent, in order
    coded                 \* a type, a value of it, and what the codec made of it

query_vars == <<finder, cursor>>
migration_vars == <<declared, live, commands>>
codec_vars == <<coded>>
work_vars == <<query_vars, migration_vars, codec_vars>>

vars == <<lifecycle_vars, object_vars, work_vars>>

Handles == DOMAIN handles

\* MongoDBConnection::test_transaction_support: any failing step gives false,
\* otherwise the sentinel insert's outcome.
test_transaction_support(session_ok, start_ok, insert_ok, commit_ok) ==
    IF ~session_ok THEN FALSE
    ELSE IF ~start_ok THEN FALSE
    ELSE IF ~commit_ok THEN FALSE
    ELSE insert_ok

\* MongoDBTransaction::is_committed
is_committed(h) == flags[handles[h].committed]

\* MongoDBTransaction::is_transaction
is_transaction(h) == handles[h].owned_session # None

\* MongoDBTransaction::session
session(h) ==
    IF flags[handles[h].committed] THEN None
    ELSE handles[h].owned_session

\* The value of the committed cell a fresh handle is built with.
FreshCommittedStartsTrue == TRUE
FreshCommitted == FALSE

\* MongoDBConnection::no_transaction (via names the entry point that built it)
NoTransactionHandle(via) ==
    /\ flags' = Append(flags, FreshCommitted)
    /\ handles' = Append(handles, [owned_session |-> None,
                                   committed |-> Len(flags) + 1,
                                   via |-> via])
    /\ UNCHANGED <<sessions, inflight, store>>

no_transaction ==
    /\ Len(handles) < MaxHandles
    /\ NoTransactionHandle("no_transaction")
    /\ UNCHANGED <<supports_transaction, issued, commit_returned>>

\* Whether transaction() takes the session-less branch.
DowngradeNever == FALSE
Downgrade == ~supports_transaction

\* The session a new transaction is given.
NewSessionReused == IF Len(sessions) > 0 THEN 1 ELSE Len(sessions) + 1
NewSession == Len(sessions) + 1

\* MongoDBConnection::transaction
transaction ==
    /\ Len(handles) < MaxHandles
    /\ IF Downgrade
       THEN NoTransactionHandle("transaction")
       ELSE \E start_ok \in BOOLEAN :
              IF start_ok
              THEN LET n == IF NewSession > Len(sessions) THEN NewSession ELSE Len(sessions) IN
                   /\ sessions' = [s \in 1..n |->
                                     IF s = NewSession THEN [state |-> "in_progress", pending |-> 0]
                                     ELSE sessions[s]]
                   /\ inflight' = [s \in 1..n |->
                                     IF s = NewSession THEN NoCall ELSE inflight[s]]
                   /\ store' = [s \in 0..n |->
                                     IF s = NewSession THEN 0 ELSE store[s]]
                   /\ flags' = Append(flags, FreshCommitted)
                   /\ handles' = Append(handles, [owned_session |-> NewSession,
                                                  committed |-> Len(flags) + 1,
                                                  via |-> "transaction"])
              ELSE \* start_transaction failed: the error is returned, no handle
                   UNCHANGED <<sessions, flags, handles, inflight, store>>
    /\ UNCHANGED <<supports_transaction, issued, commit_returned>>

\* MongoDBTransaction::spawn: the derived Clone copies the OwnedSession and the
\* Arc of the committed cell, so both are shared.
spawn(h) ==
    /\ Len(handles) < MaxHandles
    /\ handles' = Append(handles, [owned_session |-> handles[h].owned_session,
                                   committed |-> handles[h].committed,
                                   via |-> "spawn"])
    /\ UNCHANGED <<supports_transaction, flags, sessions, store, issued,
                   inflight, commit_returned>>

\* ------------------------------------------------------------ driver calls
\* OwnedSession::client_session hands out the session without a lock; the host
\* executor issues one driver call at a time on a session. A call on session s
\* is issued when no call on s is in flight. A session-less call shares nothing
\* with any other call: it is issued and answered in one step.
SessionFree(s) == inflight[s] = NoCall

\* `match self.session()` of create_object, update_object and delete_object:
\* the session the write is sent with, None for the session-less variant.
WriteSessionless(h) == None
WriteSession(h) == session(h)

\* `match self.session()` of aggregate_to_documents.
AggregateSession(h) == session(h)

\* The open transaction a write through handle h belongs to: the handle's
\* session while its transaction is neither committed nor aborted, else None.
OpenTxn(h) ==
    IF /\ handles[h].owned_session # None
       /\ sessions[handles[h].owned_session].state = "in_progress"
    THEN handles[h].owned_session
    ELSE None

\* A driver call of handle h: with session s it stays in flight until
\* DriverReturn, without one (s = None) the driver's answer is taken at once.
Call(h, op, s) ==
    IF s = None
    THEN UNCHANGED inflight
    ELSE /\ SessionFree(s)
         /\ inflight' = [inflight EXCEPT ![s] = [handle |-> h, op |-> op]]

\* A write through handle h. Sent without a session, an acknowledged write
\* is visible at once.
Write(h, op) ==
    /\ issued < MaxWrites
    /\ issued' = issued + 1
    /\ LET s == WriteSession(h) IN
       /\ Call(h, op, s)
       /\ \E ok \in BOOLEAN :
            store' = IF s = None /\ ok THEN [store EXCEPT ![OpenTxn(h)] = @ + 1] ELSE store
    /\ UNCHANGED <<supports_transaction, handles, flags, sessions, commit_returned>>

\* MongoDBTransaction::save_object up to its insert_one / update_one call
save_object(h) == Write(h, "save_object")

\* MongoDBTransaction::delete_object up to its delete_one call
delete_object(h) == Write(h, "delete_object")

\* find_unique, find_many, count, aggregate and group_by all reach the driver
\* through aggregate_to_documents: up to its aggregate call.
aggregate_to_documents(h) ==
    /\ Call(h, "aggregate", AggregateSession(h))
    /\ UNCHANGED <<supports_transaction, handles, flags, sessions, store,
                   issued, commit_returned>>

\* migrate: list_indexes, drop_index and create_index are sent without a session
migrate(h) ==
    /\ Call(h, "migrate", None)
    /\ UNCHANGED <<supports_transaction, handles, flags, sessions, store,
                   issued, commit_returned>>

\* purge: Collection::drop without a session, unwrapped
purge(h) ==
    /\ Call(h, "purge", None)
    /\ \E ok \in BOOLEAN : store' = IF ok THEN [t \in DOMAIN store |-> 0] ELSE store
    /\ UNCHANGED <<supports_transaction, handles, flags, sessions,
                   issued, commit_returned>>

\* MongoDBTransaction::commit up to OwnedSession::commit_transaction; without
\* an owned session Ok(()) at once.
commit(h) ==
    /\ IF handles[h].owned_session = None
       THEN UNCHANGED inflight
       ELSE Call(h, "commit", handles[h].owned_session)
    /\ UNCHANGED <<supports_transaction, handles, flags, sessions, store,
                   issued, commit_returned>>

\* MongoDBTransaction::abort up to OwnedSession::abort_transaction
abort(h) ==
    /\ IF handles[h].owned_session = None
       THEN UNCHANGED inflight
       ELSE Call(h, "abort", handles[h].owned_session)
    /\ UNCHANGED <<supports_transaction, handles, flags, sessions, store,
                   issued, commit_returned>>

\* The driver's ClientSession::commit_transaction on a session in state st.
commit_transaction(st, ok) ==
    CASE st = "in_progress" -> IF ok THEN [state |-> "committed", result |-> "ok"]
                                     ELSE [state |-> "in_progress", result |-> "err"]
      [] st = "committed"   -> [state |-> "committed", result |-> IF ok THEN "ok" ELSE "err"]
      [] OTHER              -> [state |-> st, result |-> "err"]

\* The driver's ClientSession::abort_transaction: server errors are ignored,
\* only a session with no open transaction refuses.
abort_transaction(st, ok) ==
    CASE st = "in_progress" -> [state |-> "aborted", result |-> "ok"]
      [] OTHER              -> [state |-> st, result |-> "err"]

\* The driver answers the call in flight on session s and the handler runs to
\* its end. An acknowledged write waits for the commit while the session's
\* transaction is open and is visible at once, outside any transaction, otherwise.
DriverReturn(s) ==
    /\ inflight[s] # NoCall
    /\ inflight' = [inflight EXCEPT ![s] = NoCall]
    /\ \E ok \in BOOLEAN :
         LET c == inflight[s]
             st == sessions[s].state
         IN
         CASE c.op \in {"save_object", "delete_object"} ->
                   /\ sessions' = IF ok /\ st = "in_progress"
                                  THEN [sessions EXCEPT ![s].pending = @ + 1]
                                  ELSE sessions
                   /\ store' = IF ok /\ st # "in_progress"
                               THEN [store EXCEPT ![None] = @ + 1] ELSE store
                   /\ UNCHANGED <<issued, commit_returned>>
           [] c.op = "aggregate" ->
                   UNCHANGED <<sessions, store, issued, commit_returned>>
           [] c.op = "commit" ->
                   \* Ok(_) => Ok(()): the committed cell is not written
                   LET r == commit_transaction(st, ok) IN
                   /\ sessions' = [sessions EXCEPT ![s] =
                                     [state |-> r.state,
                                      pending |-> IF r.state = "committed" THEN 0 ELSE @.pending]]
                   /\ store' = IF r.state = "committed"
                               THEN [store EXCEPT ![s] = @ + sessions[s].pending] ELSE store
                   /\ commit_returned' = IF r.result = "ok"
                                         THEN commit_returned \cup {c.handle}
                                         ELSE commit_returned
                   /\ UNCHANGED <<issued>>
           [] c.op = "abort" ->
                   LET r == abort_transaction(st, ok) IN
                   /\ sessions' = [sessions EXCEPT ![s] =
                                     [state |-> r.state,
                                      pending |-> IF r.state = "aborted" THEN 0 ELSE @.pending]]
                   /\ UNCHANGED <<store, issued, commit_returned>>
    /\ UNCHANGED <<supports_transaction, handles, flags>>

\* ------------------------------------------------------------- BSON codec
\* Values and BSON values are records [tag, v]; strings and object ids are
\* numbered, an array's v is the sequence of its elements.
Null == [tag |-> "Null", v |-> 0]
BsonNull == [tag |-> "Null", v |-> 0]
\* panic!() / unwrap() on None or Err: the handler does not return
Panic == [tag |-> "Panic", v |-> 0]

\* Float values are counted in f64 steps, of which every FloatStep-th is an
\* f32; DateTime values in nanoseconds, BSON datetimes in milliseconds, Date
\* values in days.
FloatStep == 2
NanosPerMilli == 1000000
MillisPerDay == 86400000

\* `n as f32` rounds to the f32 below (`*f as f64` widens exactly)
Narrow(n) == n - (n % FloatStep)

\* BsonDateTime::from(chrono::DateTime): timestamp_millis()
from_chrono(nanos) == nanos \div NanosPerMilli
\* BsonDateTime::to_chrono
to_chrono(millis) == millis * NanosPerMilli
\* Utc.from_utc_datetime(NaiveDateTime::new(date, NaiveTime::default())), in milliseconds
Midnight(date) == date * MillisPerDay
\* to_chrono().date_naive(), from milliseconds
date_naive(millis) == millis \div MillisPerDay

\* The member names of the model's enum, numbered like strings
EnumMembers == {1, 2}

\* teon_value_to_bson, for the values the write paths meet
RECURSIVE teon_value_to_bson(_)
teon_value_to_bson(val) ==
    CASE val.tag = "Null"        -> BsonNull
      [] val.tag = "ObjectId"    -> [tag |-> "ObjectId", v |-> val.v]
      [] val.tag = "Bool"        -> [tag |-> "Boolean", v |-> val.v]
      [] val.tag = "Int"         -> [tag |-> "Int32", v |-> val.v]
      [] val.tag = "Int64"       -> [tag |-> "Int64", v |-> val.v]
      [] val.tag = "Float32"     -> [tag |-> "Double", v |-> val.v]
      [] val.tag = "Float"       -> [tag |-> "Double", v |-> val.v]
      [] val.tag = "String"      -> [tag |-> "String", v |-> val.v]
      [] val.tag = "Date"        -> [tag |-> "DateTime", v |-> Midnight(val.v)]
      [] val.tag = "DateTime"    -> [tag |-> "DateTime", v |-> from_chrono(val.v)]
      [] val.tag = "Array"       -> [tag |-> "Array",
                                     v |-> [i \in DOMAIN val.v |-> teon_value_to_bson(val.v[i])]]
      [] val.tag = "Dictionary"  -> [tag |-> "Document",
                                     v |-> [k \in DOMAIN val.v |-> teon_value_to_bson(val.v[k])]]
      [] val.tag = "EnumVariant" -> [tag |-> "String", v |-> val.v]
      [] OTHER                   -> Panic

\* BsonCoder::encode
encode(type, val) ==
    CASE type = "Int"   -> IF val.tag = "Int" THEN [tag |-> "Int32", v |-> val.v] ELSE BsonNull
      [] type = "Int64" -> IF val.tag = "Int64" THEN [tag |-> "Int64", v |-> val.v] ELSE BsonNull
      [] OTHER          -> teon_value_to_bson(val)

\* decode's Ok(value), and its Err(record_decoding_error(model.name(), path,
\* expected)) with the path counted from the path decode was called with
DecodeOk(val) == [ok |-> TRUE, value |-> val, expected |-> "", path |-> <<>>]
DecodeErr(expected) == [ok |-> FALSE, value |-> Null, expected |-> expected, path |-> <<>>]

\* The element type of the model's array field, not optional
ArrayInner == "Int"

\* BsonCoder::decode, for the types of the saved model
RECURSIVE decode(_, _, _)
decode(type, optional, bson) ==
    IF bson.tag = "Null" /\ optional THEN DecodeOk(Null)
    ELSE CASE type = "ObjectId" -> IF bson.tag = "ObjectId"
                                   THEN DecodeOk([tag |-> "ObjectId", v |-> bson.v])
                                   ELSE DecodeErr("object id")
           [] type = "Bool"     -> IF bson.tag = "Boolean"
                                   THEN DecodeOk([tag |-> "Bool", v |-> bson.v])
                                   ELSE DecodeErr("bool")
           [] type = "Int"      -> IF bson.tag = "Int32"
                                   THEN DecodeOk([tag |-> "Int", v |-> bson.v])
                                   ELSE DecodeErr("int 32")
           [] type = "Int64"    -> IF bson.tag = "Int64"
                                   THEN DecodeOk([tag |-> "Int64", v |-> bson.v])
                                   ELSE DecodeErr("int 64")
           [] type = "Float32"  -> IF bson.tag = "Double"
                                   THEN DecodeOk([tag |-> "Float32", v |-> Narrow(bson.v)])
                                   ELSE DecodeErr("double")
           [] type = "Float"    -> IF bson.tag = "Double"
                                   THEN DecodeOk([tag |-> "Float", v |-> bson.v])
                                   ELSE DecodeErr("double")
           [] type = "String"   -> IF bson.tag = "String"
                                   THEN DecodeOk([tag |-> "String", v |-> bson.v])
                                   ELSE DecodeErr("string")
           [] type = "Date"     -> IF bson.tag = "DateTime"
                                   THEN DecodeOk([tag |-> "Date", v |-> date_naive(bson.v)])
                                   ELSE DecodeErr("datetime")
           [] type = "DateTime" -> IF bson.tag = "DateTime"
                                   THEN DecodeOk([tag |-> "DateTime", v |-> to_chrono(bson.v)])
                                   ELSE DecodeErr("datetime")
           [] type = "EnumVariant" ->
                  IF bson.tag = "String"
                  THEN IF bson.v \in EnumMembers
                       THEN DecodeOk([tag |-> "String", v |-> bson.v])
                       ELSE DecodeErr("enum path")
                  ELSE DecodeErr("string")
           [] type = "Array"    ->
                  IF bson.tag = "Array"
                  THEN LET items == [i \in DOMAIN bson.v |-> decode(ArrayInner, FALSE, bson.v[i])]
                           bad == {i \in DOMAIN items : ~items[i].ok}
                       IN IF bad = {}
                          THEN DecodeOk([tag |-> "Array",
                                         v |-> [i \in DOMAIN items |-> items[i].value]])
                          ELSE LET i == CHOOSE i \in bad : \A j \in bad : i <= j
                               IN [items[i] EXCEPT !.path = <<i - 1>> \o @]
                  ELSE DecodeErr("array")
           [] type = "Dictionary" ->
                  IF bson.tag = "Document"
                  THEN LET entries == [k \in DOMAIN bson.v |-> decode(ArrayInner, FALSE, bson.v[k])]
                           bad == {k \in DOMAIN entries : ~entries[k].ok}
                       IN IF bad = {}
                          THEN DecodeOk([tag |-> "Dictionary",
                                         v |-> [k \in DOMAIN entries |-> entries[k].value]])
                          ELSE LET k == CHOOSE k \in bad : TRUE
                               IN [entries[k] EXCEPT !.path = <<k>> \o @]
                  ELSE DecodeErr("document")
           [] OTHER             -> DecodeErr("unreachable")

\* --------------------------------------------------------- the saved model
\* One model: an auto ObjectId key stored as `_id`, an Int stored under its
\* own name, an auto Int whose column differs from its name, an array, and
\* one property.
Fields == <<
    [name |-> "id",    column_name |-> "_id",  type |-> "ObjectId", optional |-> FALSE],
    [name |-> "age",   column_name |-> "age",  type |-> "Int",      optional |-> TRUE],
    [name |-> "score", column_name |-> "s",    type |-> "Int",      optional |-> TRUE],
    [name |-> "tags",  column_name |-> "tags", type |-> "Array",    optional |-> TRUE] >>

Properties == << [name |-> "len", type |-> "Int64"] >>

\* model.cache.auto_keys
auto_keys == <<"id", "score">>

\* model.cache.save_keys: keys_for_save() is a subsequence of it
save_keys == <<"id", "age", "score", "tags", "len">>

FieldNames == {Fields[i].name : i \in DOMAIN Fields}
PropertyNames == {Properties[i].name : i \in DOMAIN Properties}

\* Model::field
field(key) == Fields[CHOOSE i \in DOMAIN Fields : Fields[i].name = key]

\* Model::property
property(key) == Properties[CHOOSE i \in DOMAIN Properties : Properties[i].name = key]

\* Model::field_with_column_name
field_with_column_name(column) ==
    {Fields[i] : i \in {j \in DOMAIN Fields : Fields[j].column_name = column}}

\* Document::insert: a later insert under the same key replaces the entry
Insert(doc, k, b) == [x \in DOMAIN doc \cup {k} |-> IF x = k THEN b ELSE doc[x]]

\* doc!{}
EmptyDoc == <<>>

\* The KeyPath the host passes to save_object
KeyPath == <<"data">>

\* get_property_value(key).await? failing in the host's getter
GetterError == [tag |-> "Err", v |-> 0]

Ok == [kind |-> "ok"]
Err(error) == [kind |-> "err", error |-> error]
Panicked == [kind |-> "panic"]

\* ------------------------------------------------------ error translation
\* The driver messages of a duplicate key error: with the column named, with
\* a column the model does not have, in the form of servers before 4.2 that
\* names no column, and with no key at all.
MsgColumn == "E11000 duplicate key error collection: db.c index: s_1 dup key: { s: 2 }"
MsgOtherColumn == "E11000 duplicate key error collection: db.c index: zz_1 dup key: { zz: 2 }"
MsgNoColumn == "E11000 duplicate key error index: db.c.$s_1 dup key: { : 2 }"
MsgNoKey == "E11000 duplicate key error"

NoMatch == [matched |-> FALSE, group |-> ""]
Match(group) == [matched |-> TRUE, group |-> group]

\* Regex::new(r"dup key: (.+)").captures(message)
full_regex(message) ==
    CASE message = MsgColumn      -> Match("{ s: 2 }")
      [] message = MsgOtherColumn -> Match("{ zz: 2 }")
      [] message = MsgNoColumn    -> Match("{ : 2 }")
      [] OTHER                    -> NoMatch

\* Regex::new(r"dup key: \{ (.+?):").captures(message)
regex(message) ==
    CASE message = MsgColumn      -> Match("s")
      [] message = MsgOtherColumn -> Match("zz")
      [] OTHER                    -> NoMatch

DuplicateKey == 11000

\* The mongodb ErrorKind values a failed write can carry
ErrorKinds ==
    {[kind |-> "Write", failure |-> "WriteError", code |-> DuplicateKey, message |-> m] :
        m \in {MsgColumn, MsgOtherColumn, MsgNoColumn, MsgNoKey}}
    \cup {[kind |-> "Write", failure |-> "WriteError", code |-> 121,
           message |-> "Document failed validation"],
          [kind |-> "Write", failure |-> "WriteConcernError", code |-> 64,
           message |-> "waiting for replication timed out"],
          [kind |-> "Transaction", failure |-> "", code |-> 0,
           message |-> "Transaction has been aborted"],
          [kind |-> "SessionsNotSupported", failure |-> "", code |-> 0, message |-> ""],
          [kind |-> "Io", failure |-> "", code |-> 0, message |-> ""]}

unique_value_duplicated(path, message) ==
    [name |-> "unique_value_duplicated", path |-> path, message |-> message]
unknown_database_write_error(path, message) ==
    [name |-> "unknown_database_write_error", path |-> path, message |-> message]

\* MongoDBTransaction::_handle_write_error; the result of the handler that
\* called it: the translated error, or a panic where a capture is unwrapped
\* on a message the regex does not match.
_handle_write_error(error_kind, path) ==
    CASE error_kind.kind = "Write" /\ error_kind.failure = "WriteError" ->
            IF error_kind.code = DuplicateKey
            THEN IF ~full_regex(error_kind.message).matched THEN Panicked
                 ELSE IF ~regex(error_kind.message).matched THEN Panicked
                 ELSE LET full_message == full_regex(error_kind.message).group
                          field_column_name == regex(error_kind.message).group
                          found == field_with_column_name(field_column_name)
                      IN IF found # {}
                         THEN Err(unique_value_duplicated(
                                    Append(path, (CHOOSE f \in found : TRUE).name), full_message))
                         ELSE Err(unique_value_duplicated(path, full_message))
            ELSE Err(unknown_database_write_error(path, error_kind.message))
      [] error_kind.kind = "Write" /\ error_kind.failure = "WriteConcernError" ->
            Err(unknown_database_write_error(path, error_kind.message))
      [] error_kind.kind = "Write" ->
            Err(unknown_database_write_error(path, "unknown write failure"))
      [] error_kind.kind = "Transaction" ->
            Err(unknown_database_write_error(path, error_kind.message))
      [] error_kind.kind = "SessionsNotSupported" ->
            Err(unknown_database_write_error(path, "session is not supported"))
      [] OTHER ->
            Err(unknown_database_write_error(path, "unknown write"))

\* ------------------------------------------------------------ create path
\* What the server does with an acknowledged write of handle h: held back
\* until the commit inside the session's open transaction, visible otherwise.
Acknowledge(h, ok) ==
    LET s == WriteSession(h) IN
    /\ sessions' = IF ok /\ s # None /\ sessions[s].state = "in_progress"
                   THEN [sessions EXCEPT ![s].pending = @ + 1]
                   ELSE sessions
    /\ store' = IF ~ok \/ (s # None /\ sessions[s].state = "in_progress") THEN store
                ELSE IF s = None THEN [store EXCEPT ![OpenTxn(h)] = @ + 1]
                ELSE [store EXCEPT ![None] = @ + 1]

\* get_property_value(key).await? returns early for some key of keys_for_save
GetterFails ==
    \E i \in DOMAIN keys_for_save :
        /\ keys_for_save[i] \in PropertyNames
        /\ property_value[keys_for_save[i]] = GetterError

\* `if val != Bson::Null` of create_object
CreateKeepsAll(val) == TRUE
CreateKeeps(val) == val # BsonNull

\* create_object's loop over keys_for_save: the document after the first n keys
RECURSIVE CreateDoc(_)
CreateDoc(n) ==
    IF n = 0 THEN EmptyDoc
    ELSE LET key == keys_for_save[n]
             doc == CreateDoc(n - 1)
         IN IF key \in FieldNames
            THEN LET val == encode(field(key).type, value[key]) IN
                 IF CreateKeeps(val) THEN Insert(doc, field(key).column_name, val) ELSE doc
            ELSE IF key \in PropertyNames
            THEN LET val == encode(property(key).type, property_value[key]) IN
                 IF CreateKeeps(val) THEN Insert(doc, key, val) ELSE doc
            ELSE doc

\* The ObjectId the driver adds to a document sent without `_id`
GeneratedId == [tag |-> "ObjectId", v |-> 9]

\* insert_one's outcomes: InsertOneResult.inserted_id, or an error
InsertReplies(doc) ==
    {[ok |-> TRUE, error_kind |-> [kind |-> ""],
      inserted_id |-> IF "_id" \in DOMAIN doc THEN doc["_id"] ELSE GeneratedId]}
    \cup {[ok |-> FALSE, error_kind |-> ek, inserted_id |-> BsonNull] : ek \in ErrorKinds}

\* `if field.column_name() == "_id"` of create_object
IsIdColumn(f) == f.column_name = "_id"

\* The auto keys create_object fills from inserted_id
IdKeys == {auto_keys[i] : i \in {j \in DOMAIN auto_keys : IsIdColumn(field(auto_keys[j]))}}

\* MongoDBTransaction::create_object
create_object(h) ==
    /\ result = NoResult
    /\ is_new
    /\ IF GetterFails
       THEN /\ result' = Err([name |-> "getter", path |-> KeyPath, message |-> ""])
            /\ UNCHANGED <<sessions, store, issued, value, stored, sent>>
       ELSE LET doc == CreateDoc(Len(keys_for_save)) IN
            \E reply \in InsertReplies(doc) :
              /\ sent' = [op |-> "insert_one", session |-> session(h), doc |-> doc,
                          reply |-> reply]
              /\ issued' = issued + 1
              /\ Acknowledge(h, reply.ok)
              /\ IF reply.ok
                 THEN /\ stored' = <<Insert(doc, "_id", reply.inserted_id)>>
                      /\ IF \E k \in IdKeys :
                              ~decode(field(k).type, field(k).optional, reply.inserted_id).ok
                         THEN /\ result' = Panicked
                              /\ UNCHANGED value
                         ELSE /\ value' = [k \in DOMAIN value |->
                                   IF k \in IdKeys
                                   THEN decode(field(k).type, field(k).optional,
                                               reply.inserted_id).value
                                   ELSE value[k]]
                              /\ result' = Ok
                 ELSE /\ result' = _handle_write_error(reply.error_kind, KeyPath)
                      /\ UNCHANGED <<value, stored>>
    /\ UNCHANGED <<supports_transaction, handles, flags, inflight, commit_returned,
                   is_new, keys_for_save, property_value, atomic_updater_map, buckets>>

\* ------------------------------------------------------------ update path
Empty == [set |-> EmptyDoc, unset |-> EmptyDoc, inc |-> EmptyDoc, mul |-> EmptyDoc,
          push |-> EmptyDoc, panic |-> FALSE, getter |-> FALSE, collected |-> TRUE]

\* Value::neg
neg(val) == [tag |-> val.tag, v |-> 0 - val.v]

\* Bson::Double(val.recip().unwrap().to_float().unwrap().abs()): the double
\* 1 / |val| as numerator and denominator
recip_abs(val) == [tag |-> "Double", v |-> <<1, IF val.v < 0 THEN 0 - val.v ELSE val.v>>]

\* The match on the updator's operator: the bucket, "" for `_ => panic!`
AtomicBucket(op) ==
    CASE op = "increment" -> "inc"
      [] op = "decrement" -> "inc"
      [] op = "multiply"  -> "mul"
      [] op = "divide"    -> "mul"
      [] op = "push"      -> "push"
      [] OTHER            -> ""

\* The match on the updator's operator: the BSON put in the bucket
AtomicOperandAsGiven(op, val) == teon_value_to_bson(val)
AtomicOperand(op, val) ==
    CASE op = "decrement" -> teon_value_to_bson(neg(val))
      [] op = "divide"    -> recip_abs(val)
      [] OTHER            -> teon_value_to_bson(val)

\* `if bson_val == Bson::Null` of update_object: $unset or $set
PlainBucket(bson_val) == IF bson_val = BsonNull THEN "unset" ELSE "set"

\* update_object's loop over keys_for_save: the buckets after the first n keys
RECURSIVE Collect(_)
Collect(n) ==
    IF n = 0 THEN Empty
    ELSE LET key == keys_for_save[n]
             b == Collect(n - 1)
         IN IF b.panic \/ b.getter THEN b
            ELSE IF key \in FieldNames
            THEN IF key \in DOMAIN atomic_updater_map
                 THEN LET updator == atomic_updater_map[key]
                          to == AtomicBucket(updator.op)
                      IN IF to = "" THEN [b EXCEPT !.panic = TRUE]
                         ELSE [b EXCEPT ![to] = Insert(@, field(key).column_name,
                                                       AtomicOperand(updator.op, updator.val))]
                 ELSE LET bson_val == encode(field(key).type, value[key]) IN
                      [b EXCEPT ![PlainBucket(bson_val)] = Insert(@, key, bson_val)]
            ELSE IF key \in PropertyNames
            THEN IF property_value[key] = GetterError THEN [b EXCEPT !.getter = TRUE]
                 ELSE LET bson_val == encode(property(key).type, property_value[key]) IN
                      [b EXCEPT ![PlainBucket(bson_val)] = Insert(@, key, bson_val)]
            ELSE b

\* `if !set.is_empty()` and its like
BucketPresentAlways(bucket) == TRUE
BucketPresent(bucket) == bucket # EmptyDoc

\* The update document assembled from the non-empty buckets
UpdateDoc(b) ==
    LET bucket == [o \in {"$set", "$unset", "$inc", "$mul", "$push"} |->
                     CASE o = "$set" -> b.set [] o = "$unset" -> b.unset [] o = "$inc" -> b.inc
                       [] o = "$mul" -> b.mul [] OTHER -> b.push]
    IN [o \in {x \in DOMAIN bucket : BucketPresent(bucket[x])} |-> bucket[o]]

\* return_new
ReturnNewOnlyInc(b) == BucketPresent(b.inc)
ReturnNew(b) == BucketPresent(b.inc) \/ BucketPresent(b.mul) \/ BucketPresent(b.push)

\* The server's $inc and $mul on a stored Int32
Add(a, by) == [tag |-> "Int32", v |-> a.v + by.v]
Mul(a, by) == IF by.tag = "Double"
              THEN [tag |-> "Double", v |-> <<a.v * by.v[1], by.v[2]>>]
              ELSE [tag |-> "Int32", v |-> a.v * by.v]

Bucket(update, o) == IF o \in DOMAIN update THEN update[o] ELSE EmptyDoc

\* The document the server stores after applying the update document to doc
ApplyUpdate(doc, update) ==
    LET set == Bucket(update, "$set")
        unset == Bucket(update, "$unset")
        inc == Bucket(update, "$inc")
        mul == Bucket(update, "$mul")
        push == Bucket(update, "$push")
        keys == ((DOMAIN doc \cup DOMAIN set \cup DOMAIN inc \cup DOMAIN mul
                    \cup DOMAIN push) \ DOMAIN unset)
    IN [k \in keys |->
          CASE k \in DOMAIN set  -> set[k]
            [] k \in DOMAIN inc  -> IF k \in DOMAIN doc THEN Add(doc[k], inc[k]) ELSE inc[k]
            [] k \in DOMAIN mul  -> IF k \in DOMAIN doc THEN Mul(doc[k], mul[k])
                                    ELSE [tag |-> mul[k].tag, v |-> 0]
            [] k \in DOMAIN push -> IF k \in DOMAIN doc
                                    THEN [tag |-> "Array", v |-> Append(doc[k].v, push[k])]
                                    ELSE [tag |-> "Array", v |-> <<push[k]>>]
            [] OTHER             -> doc[k]]

\* update_one's and find_one_and_update's outcomes: the document after the
\* update, if one matched, or an error
UpdateReplies(update) ==
    {[ok |-> TRUE, error_kind |-> [kind |-> ""],
      updated_document |-> IF stored = <<>> THEN <<>>
                           ELSE <<ApplyUpdate(stored[1], update)>>]}
    \cup {[ok |-> FALSE, error_kind |-> ek, updated_document |-> <<>>] : ek \in ErrorKinds}

record_decoding_error(path, expected) ==
    [name |-> "record_decoding_error", model |-> "Model", path |-> path, message |-> expected]

\* The key update_object looks up in the returned document
ReadKey(key) == key

\* The orders in which atomic_updater_map.iter() can yield its keys
Orders(S) == {o \in [1..Cardinality(S) -> S] : \A i, j \in DOMAIN o : o[i] = o[j] => i = j}

\* The loop over atomic_updater_map after find_one_and_update: the object's
\* values and the handler's result after the first n keys of order
RECURSIVE ReadBack(_, _, _)
ReadBack(order, updated_document, n) ==
    IF n = 0 THEN [value |-> value, result |-> Ok]
    ELSE LET prev == ReadBack(order, updated_document, n - 1)
             key == order[n]
         IN IF prev.result # Ok THEN prev
            ELSE IF updated_document = <<>> \/ ReadKey(key) \notin DOMAIN updated_document[1]
            THEN [prev EXCEPT !.result = Panicked]
            ELSE LET d == decode(field(key).type, field(key).optional,
                                 updated_document[1][ReadKey(key)])
                 IN IF d.ok THEN [prev EXCEPT !.value[key] = d.value]
                    ELSE [prev EXCEPT !.result = Err(record_decoding_error(d.path, d.expected))]

\* MongoDBTransaction::update_object
update_object(h) ==
    /\ result = NoResult
    /\ ~is_new
    /\ LET b == Collect(Len(keys_for_save))
           update_doc == UpdateDoc(b)
       IN
       IF b.panic
       THEN /\ result' = Panicked
            /\ UNCHANGED <<sessions, store, issued, value, stored, buckets, sent>>
       ELSE IF b.getter
       THEN /\ result' = Err([name |-> "getter", path |-> KeyPath, message |-> ""])
            /\ UNCHANGED <<sessions, store, issued, value, stored, buckets, sent>>
       ELSE
         /\ buckets' = b
         /\ IF update_doc = EmptyDoc
            THEN /\ result' = Ok
                 /\ UNCHANGED <<sessions, store, issued, value, stored, sent>>
            ELSE \E reply \in UpdateReplies(update_doc) :
                   /\ sent' = [op |-> IF ReturnNew(b) THEN "find_one_and_update"
                                      ELSE "update_one",
                               session |-> session(h), doc |-> update_doc,
                               return_document |-> IF ReturnNew(b) THEN "After" ELSE "",
                               reply |-> reply]
                   /\ issued' = issued + 1
                   /\ Acknowledge(h, reply.ok /\ stored # <<>>)
                   /\ stored' = IF reply.ok THEN reply.updated_document ELSE stored
                   /\ IF ~reply.ok
                      THEN /\ result' = _handle_write_error(reply.error_kind, KeyPath)
                           /\ UNCHANGED value
                      ELSE IF ~ReturnNew(b)
                      THEN /\ result' = Ok
                           /\ UNCHANGED value
                      ELSE \E order \in Orders(DOMAIN atomic_updater_map) :
                             LET r == ReadBack(order, reply.updated_document, Len(order)) IN
                             /\ value' = r.value
                             /\ result' = r.result
    /\ UNCHANGED <<supports_transaction, handles, flags, inflight, commit_returned,
                   is_new, keys_for_save, property_value, atomic_updater_map>>

\* ------------------------------------------------------- objects to save
\* The values a saved field can hold: Null, a value of its type, and for the
\* Int field an Int64, which encode turns into Null.
FieldValues(key) ==
    CASE key = "id"    -> {Null, [tag |-> "ObjectId", v |-> 1]}
      [] key = "age"   -> {Null, [tag |-> "Int", v |-> 1], [tag |-> "Int64", v |-> 1]}
      [] key = "score" -> {Null, [tag |-> "Int", v |-> 2]}
      [] OTHER         -> {Null, [tag |-> "Array", v |-> <<[tag |-> "Int", v |-> 1]>>]}

\* The value of a field that is not saved
HeldValue(key, new) ==
    CASE key = "id"    -> IF new THEN Null ELSE [tag |-> "ObjectId", v |-> 1]
      [] key = "age"   -> [tag |-> "Int", v |-> 1]
      [] key = "score" -> [tag |-> "Int", v |-> 2]
      [] OTHER         -> Null

\* The operands an updator can carry: decrement and divide also a negative one
Operands(op) ==
    IF op \in {"decrement", "divide"} THEN {0 - 1} \cup 1..MaxOperand ELSE 1..MaxOperand

\* The atomic updators a field can carry; "set" is no operator of update_object
Updators(key) ==
    IF key = "age"
    THEN {[op |-> o, val |-> [tag |-> "Int", v |-> 1]] : o \in {"increment", "multiply"}}
    ELSE IF key = "score"
    THEN UNION {{[op |-> o, val |-> [tag |-> "Int", v |-> n]] : n \in Operands(o)} :
                  o \in {"increment", "decrement", "multiply", "divide", "set"}}
    ELSE IF key = "tags"
    THEN {[op |-> "push", val |-> [tag |-> "Int", v |-> n]] : n \in 1..MaxOperand}
    ELSE {}

InKeys(S, key) == key \in S
KeysForSave(S) == SelectSeq(save_keys, LAMBDA key : InKeys(S, key))

\* The document stored for an object that was saved before
StoredDoc ==
    [k \in {"_id", "age", "s", "tags"} |->
        CASE k = "_id"  -> [tag |-> "ObjectId", v |-> 1]
          [] k = "age"  -> [tag |-> "Int32", v |-> 1]
          [] k = "s"    -> [tag |-> "Int32", v |-> 2]
          [] OTHER      -> [tag |-> "Array", v |-> <<[tag |-> "Int32", v |-> 1]>>]]

\* The stored document after an earlier update_object saved score = 7 as a
\* plain value: its $set is keyed by the runtime name.
StoredAfterSet ==
    ApplyUpdate(StoredDoc, [o \in {"$set"} |-> [k \in {"score"} |-> [tag |-> "Int32", v |-> 7]]])

\* No query, no migration and no codec call under way
NoQuery == finder = <<>> /\ cursor = <<>>
NoMigration == declared = <<>> /\ live = <<>> /\ commands = <<>>
NoCodec == coded = <<>>

\* One handle, from no_transaction() or from transaction() with its session
\* open, and one object about to be saved through it.
SaveInit ==
    /\ supports_transaction \in BOOLEAN
    /\ handles = <<[owned_session |-> IF supports_transaction THEN 1 ELSE None,
                    committed |-> 1,
                    via |-> IF supports_transaction THEN "transaction" ELSE "no_transaction"]>>
    /\ flags = <<FreshCommitted>>
    /\ sessions = IF supports_transaction THEN <<[state |-> "in_progress", pending |-> 0]>>
                  ELSE <<>>
    /\ store = [t \in {None} \cup DOMAIN sessions |-> 0]
    /\ issued = 0
    /\ inflight = [s \in DOMAIN sessions |-> NoCall]
    /\ commit_returned = {}
    /\ is_new \in BOOLEAN
    /\ keys_for_save \in {KeysForSave(S) : S \in SUBSET (FieldNames \cup PropertyNames)}
    /\ LET S == {keys_for_save[i] : i \in DOMAIN keys_for_save} IN
       /\ atomic_updater_map \in
            IF is_new THEN {<<>>}
            ELSE UNION {{m \in [D -> UNION {Updators(k) : k \in D}] :
                            \A k \in D : m[k] \in Updators(k)} :
                        D \in SUBSET (S \cap {"age", "score", "tags"})}
       /\ LET Held(k) == IF k \in S /\ k \notin DOMAIN atomic_updater_map
                         THEN FieldValues(k) ELSE {HeldValue(k, is_new)}
          IN value \in {[id |-> a, age |-> b, score |-> c, tags |-> d] :
                          a \in Held("id"), b \in Held("age"),
                          c \in Held("score"), d \in Held("tags")}
       /\ property_value \in
            IF "len" \in S
            THEN {[len |-> x] : x \in {Null, [tag |-> "Int64", v |-> 3], GetterError}}
            ELSE {[len |-> [tag |-> "Int64", v |-> 3]]}
    /\ stored \in IF is_new THEN {<<>>}
                  ELSE IF "score" \notin DOMAIN atomic_updater_map THEN {<<>>, <<StoredDoc>>}
                  ELSE {<<>>, <<StoredDoc>>, <<StoredAfterSet>>}
    /\ buckets = NoBuckets
    /\ sent = NoSend
    /\ result = NoResult
    /\ NoQuery /\ NoMigration /\ NoCodec

\* MongoDBTransaction::save_object: create if the object is new, else update
SaveNext ==
    \/ \E h \in Handles : create_object(h) /\ UNCHANGED work_vars
    \/ \E h \in Handles : update_object(h) /\ UNCHANGED work_vars

SpecSave == SaveInit /\ [][SaveNext]_vars

\* ------------------------------------------------------------ delete path
object_is_not_saved_thus_cant_be_deleted(path) ==
    [name |-> "object_is_not_saved_thus_cant_be_deleted", path |-> path, message |-> ""]
unknown_database_delete_error(path, message) ==
    [name |-> "unknown_database_delete_error", path |-> path, message |-> message]

\* format!("{}", err) of a driver error
Display(error_kind) == <<error_kind.kind, error_kind.message>>

\* Object::db_identifier: the primary key by column
db_identifier == [k \in {"_id"} |-> value["id"]]

\* teon_value_to_bson(&object.db_identifier()).as_document().unwrap()
document_identifier == [k \in DOMAIN db_identifier |-> teon_value_to_bson(db_identifier[k])]

\* Whether the stored document is selected by a filter document
Selected(filter) ==
    /\ stored # <<>>
    /\ \A k \in DOMAIN filter : k \in DOMAIN stored[1] /\ stored[1][k] = filter[k]

\* `if object.is_new()` of delete_object
RefusesNever == FALSE
Refuses == is_new

\* MongoDBTransaction::delete_object, with its driver call answered
DeleteObject(h) ==
    /\ result = NoResult
    /\ IF Refuses
       THEN /\ result' = Err(object_is_not_saved_thus_cant_be_deleted(KeyPath))
            /\ UNCHANGED <<sessions, store, issued, stored, sent>>
       ELSE \E ok \in BOOLEAN, ek \in ErrorKinds :
              /\ ok => ek.kind = "Io"
              /\ sent' = [op |-> "delete_one", session |-> session(h),
                          filter |-> document_identifier,
                          reply |-> [ok |-> ok, error_kind |-> IF ok THEN [kind |-> ""] ELSE ek]]
              /\ issued' = issued + 1
              /\ Acknowledge(h, ok /\ Selected(document_identifier))
              /\ stored' = IF ok /\ Selected(document_identifier) THEN <<>> ELSE stored
              /\ result' = IF ok THEN Ok
                           ELSE Err(unknown_database_delete_error(KeyPath, Display(ek)))
    /\ UNCHANGED <<supports_transaction, handles, flags, inflight, commit_returned,
                   is_new, keys_for_save, value, property_value, atomic_updater_map, buckets>>

\* An object with at most one key to save, about to be deleted
DeleteInit == SaveInit /\ Len(keys_for_save) <= 1

DeleteNext == \E h \in Handles : DeleteObject(h) /\ UNCHANGED work_vars

SpecDelete == DeleteInit /\ [][DeleteNext]_vars

\* ------------------------------------------------------------- query path
unknown_database_find_error(path, message) ==
    [name |-> "unknown_database_find_error", path |-> path, message |-> message]

\* The fields document_to_object finds for the keys of a document
FieldsOf(doc) == {Fields[i] : i \in {j \in DOMAIN Fields : Fields[j].column_name \in DOMAIN doc}}

\* MongoDBTransaction::document_to_object for a model without relations: a
\* key that is some field's column is decoded and set under the field's
\* name, any other key is skipped; the first failing decode is returned.
document_to_object(doc) ==
    LET Decoded(f) == decode(f.type, f.optional, doc[f.column_name])
        failed == {f \in FieldsOf(doc) : ~Decoded(f).ok}
    IN IF failed # {}
       THEN [ok |-> FALSE,
             error |-> LET d == Decoded(CHOOSE f \in failed : TRUE)
                       IN record_decoding_error(d.path, d.expected)]
       ELSE [ok |-> TRUE,
             object |-> [is_initialized |-> TRUE, is_new |-> FALSE,
                         values |-> [name \in {f.name : f \in FieldsOf(doc)} |->
                                       Decoded(field(name)).value]]]

\* Input::has_negative_take
has_negative_take(f) == "take" \in DOMAIN f /\ f["take"].tag = "Int" /\ f["take"].v < 0

\* `if reverse { result.insert(0, obj) } else { result.push(obj) }`
PlaceLast(objects, obj, reverse) == Append(objects, obj)
Place(objects, obj, reverse) == IF reverse THEN <<obj>> \o objects ELSE Append(objects, obj)

\* find_many's loop over the cursor's items: what it holds after the first n
RECURSIVE Gather(_)
Gather(n) ==
    IF n = 0 THEN [kind |-> "ok", value |-> <<>>]
    ELSE LET prev == Gather(n - 1)
             item == cursor[n]
         IN IF prev.kind # "ok" THEN prev
            ELSE IF ~item.ok THEN Panicked
            ELSE LET m == document_to_object(item.doc) IN
                 IF ~m.ok
                 THEN Err(unknown_database_find_error(KeyPath, m.error))
                 ELSE [kind |-> "ok",
                       value |-> Place(prev.value, m.object, has_negative_take(finder))]

\* MongoDBTransaction::find_many, with aggregate_to_documents answered: the
\* aggregate call fails, or yields the cursor's items.
find_many(h) ==
    /\ result = NoResult
    /\ \E call_ok \in BOOLEAN :
         /\ sent' = [op |-> "aggregate", caller |-> "find_many", session |-> session(h),
                     reply |-> [ok |-> call_ok]]
         /\ result' = IF call_ok THEN Gather(Len(cursor))
                      ELSE Err(unknown_database_find_error(KeyPath, "cursor"))
    /\ UNCHANGED <<lifecycle_vars, is_new, keys_for_save, value, property_value,
                   atomic_updater_map, stored, buckets, work_vars>>

\* g.starts_with("_") for the keys a finder or a result row can carry
starts_with_underscore(g) == g \in {"_id", "_count", "_sum", "_avg", "_min", "_max"}

Dictionary(entries) == [tag |-> "Dictionary", v |-> entries]

\* The bucket values aggregate_or_group_by takes over: a double, an int64, an
\* int32 or a null; a value of any other BSON type is left out.
BucketLeaves(o) ==
    LET kept == {k \in DOMAIN o.v : o.v[k].tag \in {"Double", "Int64", "Int32", "Null"}}
    IN [k \in kept |->
          CASE o.v[k].tag = "Double" -> [tag |-> "Float", v |-> o.v[k].v]
            [] o.v[k].tag = "Int64"  -> [tag |-> "Int64", v |-> o.v[k].v]
            [] o.v[k].tag = "Int32"  -> [tag |-> "Int", v |-> o.v[k].v]
            [] OTHER                 -> Null]

\* aggregate_or_group_by's body for one result row
RowValue(data) ==
    LET keys == DOMAIN data \ {"_id"}
        buckets_of == {g \in keys : starts_with_underscore(g)}
        groups_of == keys \ buckets_of
        Group(g) == IF data[g].tag = "Null" THEN DecodeOk(Null)
                    ELSE decode(field(g).type, TRUE, data[g])
    IN IF \/ \E g \in buckets_of : data[g].tag # "Document"
          \/ \E g \in groups_of : g \notin FieldNames
       THEN Panicked
       ELSE IF \E g \in groups_of : ~Group(g).ok
       THEN LET d == Group(CHOOSE g \in groups_of : ~Group(g).ok)
            IN Err(record_decoding_error(d.path, d.expected))
       ELSE [kind |-> "ok",
             value |-> Dictionary([g \in keys |->
                          IF g \in buckets_of THEN Dictionary(BucketLeaves(data[g]))
                          ELSE Group(g).value])]

\* aggregate_or_group_by's loop over the cursor's items, after the first n
RECURSIVE Rows(_)
Rows(n) ==
    IF n = 0 THEN [kind |-> "ok", value |-> <<>>]
    ELSE LET prev == Rows(n - 1)
             item == cursor[n]
         IN IF prev.kind # "ok" THEN prev
            ELSE IF ~item.ok THEN Panicked
            ELSE LET row == RowValue(item.doc) IN
                 IF row.kind # "ok" THEN row
                 ELSE [kind |-> "ok", value |-> Append(prev.value, row.value)]

\* `if g == "_count" { teon!(0) } else { teon!(null) }`
EmptyLeaf(g) == IF g = "_count" THEN [tag |-> "Int", v |-> 0] ELSE Null

\* aggregate's answer to an empty result: one sub-dictionary per key of the
\* finder, each of whose values is unwrapped as a dictionary
EmptyShape(f) ==
    IF \E g \in DOMAIN f : f[g].tag # "Dictionary"
    THEN Panicked
    ELSE [kind |-> "ok",
          value |-> Dictionary([g \in DOMAIN f |->
                       Dictionary([k \in DOMAIN f[g].v |-> EmptyLeaf(g)])])]

\* MongoDBTransaction::aggregate, with aggregate_to_documents answered
aggregate(h) ==
    /\ result = NoResult
    /\ \E call_ok \in BOOLEAN :
         /\ sent' = [op |-> "aggregate", caller |-> "aggregate", session |-> session(h),
                     reply |-> [ok |-> call_ok]]
         /\ result' = IF ~call_ok THEN Err(unknown_database_find_error(KeyPath, "cursor"))
                      ELSE LET results == Rows(Len(cursor)) IN
                           IF results.kind # "ok" THEN results
                           ELSE IF results.value = <<>> THEN EmptyShape(finder)
                           ELSE [kind |-> "ok", value |-> results.value[1]]
    /\ UNCHANGED <<lifecycle_vars, is_new, keys_for_save, value, property_value,
                   atomic_updater_map, stored, buckets, work_vars>>

\* MongoDBTransaction::sql
sql(h) ==
    /\ result = NoResult
    /\ result' = Err([name |-> "runtime", path |-> <<>>,
                      message |-> "do not run raw sql on MongoDB database"])
    /\ UNCHANGED <<lifecycle_vars, is_new, keys_for_save, value, property_value,
                   atomic_updater_map, stored, buckets, sent, work_vars>>

\* MongoDBTransaction::query_raw: unreachable!()
query_raw(h) ==
    /\ result = NoResult
    /\ result' = Panicked
    /\ UNCHANGED <<lifecycle_vars, is_new, keys_for_save, value, property_value,
                   atomic_updater_map, stored, buckets, sent, work_vars>>

\* ------------------------------------------------------ queries to answer
\* One handle, from no_transaction() or from transaction() with its session open
OneHandle ==
    /\ supports_transaction \in BOOLEAN
    /\ handles = <<[owned_session |-> IF supports_transaction THEN 1 ELSE None,
                    committed |-> 1,
                    via |-> IF supports_transaction THEN "transaction" ELSE "no_transaction"]>>
    /\ flags = <<FreshCommitted>>
    /\ sessions = IF supports_transaction THEN <<[state |-> "in_progress", pending |-> 0]>>
                  ELSE <<>>
    /\ store = [t \in {None} \cup DOMAIN sessions |-> 0]
    /\ issued = 0
    /\ inflight = [s \in DOMAIN sessions |-> NoCall]
    /\ commit_returned = {}

\* A finder key that is not given
Absent == [tag |-> "Absent", v |-> 0]

\* What a finder can carry under a key: the aggregation groups _count and
\* _sum with the fields to aggregate, and the keys take and where.
FinderChoices(key) ==
    LET yes == [tag |-> "Bool", v |-> TRUE] IN
    CASE key = "_count" -> {Absent, Dictionary([k \in {"age"} |-> yes]),
                            Dictionary([k \in {"age", "score"} |-> yes])}
      [] key = "_sum"   -> {Absent, Dictionary([k \in {"score"} |-> yes])}
      [] key = "take"   -> {Absent, [tag |-> "Int", v |-> 1], [tag |-> "Int", v |-> 0 - 1]}
      [] OTHER          -> {Absent, Dictionary([k \in {"age"} |-> [tag |-> "Int", v |-> 1]])}

Finders ==
    {[k \in {x \in {"_count", "_sum", "take", "where"} : c[x] # Absent} |-> c[k]] :
        c \in {[_count |-> a, _sum |-> b, take |-> d, where |-> e] :
                 a \in FinderChoices("_count"), b \in FinderChoices("_sum"),
                 d \in FinderChoices("take"), e \in FinderChoices("where")}}

\* The items a cursor can yield: two documents of the model (one with a
\* stray key), a document whose age is not an int, a grouped aggregation
\* row, and a driver error in place of a document.
CursorItems ==
    LET oid(n) == [tag |-> "ObjectId", v |-> n]
        int(n) == [tag |-> "Int32", v |-> n]
        str == [tag |-> "String", v |-> 1]
    IN {[ok |-> TRUE, doc |-> [k \in {"_id", "s"} |-> IF k = "_id" THEN oid(1) ELSE int(1)]],
        [ok |-> TRUE, doc |-> [k \in {"_id", "s", "stray"} |->
                                 CASE k = "_id" -> oid(2) [] k = "s" -> int(2) [] OTHER -> str]],
        [ok |-> TRUE, doc |-> [k \in {"_id", "age"} |-> IF k = "_id" THEN oid(3) ELSE str]],
        [ok |-> TRUE, doc |-> [k \in {"_id", "_count", "age"} |->
                                 CASE k = "_id" -> BsonNull
                                   [] k = "age" -> int(1)
                                   [] OTHER -> [tag |-> "Document",
                                                v |-> [x \in {"age"} |->
                                                         [tag |-> "Int64", v |-> 2]]]]],
        [ok |-> FALSE, doc |-> EmptyDoc]}

\* --------------------------------------------------------------- migrate
\* A declared index (teo Index) is [name, type, items], an item [field, sort];
\* a live index (driver IndexModel) is [name, keys, unique], keys the
\* sequence of <<column, 1 or -1>>, unique the option <<>> or <<BOOLEAN>>.

\* FromIndexModel for Index
from_index_model(index_model) ==
    LET unique == IF index_model.unique = <<>> THEN FALSE ELSE index_model.unique[1]
        items == [i \in DOMAIN index_model.keys |->
                    [field |-> index_model.keys[i][1],
                     sort |-> IF index_model.keys[i][2] = 1 THEN "Asc" ELSE "Desc"]]
    IN [name |-> index_model.name,
        type |-> IF unique THEN "Unique" ELSE "Index",
        items |-> items]

\* `index.keys == doc!{"_id": 1}`
IsIdIndex(index_model) == index_model.keys = << <<"_id", 1>> >>

\* `.unique(result.r#type() == Type::Unique || result.r#type() == Type::Primary)`
UniqueOption(index) == index.type = "Unique" \/ index.type = "Primary"

\* The IndexModel migrate builds from a declared index: keys by column name
ToIndexModel(index) ==
    [name |-> index.name,
     keys |-> [i \in DOMAIN index.items |->
                 <<field(index.items[i].field).column_name,
                   IF index.items[i].sort = "Asc" THEN 1 ELSE 0 - 1>>],
     unique |-> <<UniqueOption(index)>>]

\* The server's createIndexes: an index equal to an existing one is a no-op,
\* one that shares its name or its keys with a different existing index is
\* refused, any other is added.
CreateOnServer(indexes, index_model) ==
    IF \E i \in DOMAIN indexes : indexes[i] = index_model
    THEN [ok |-> TRUE, indexes |-> indexes]
    ELSE IF \E i \in DOMAIN indexes :
              indexes[i].name = index_model.name \/ indexes[i].keys = index_model.keys
    THEN [ok |-> FALSE, indexes |-> indexes]
    ELSE [ok |-> TRUE, indexes |-> Append(indexes, index_model)]

\* The server's dropIndexes by name
DropOnServer(indexes, name) == SelectSeq(indexes, LAMBDA x : x.name # name)

\* model.indexes().iter().find(|i| name == i.name())
FindDeclared(name) == {i \in DOMAIN declared : declared[i].name = name}

\* One driver index command as the collection receives it
DropCommand(name) == [op |-> "drop_index", name |-> name]
CreateCommand(index_model) == [op |-> "create_index", index |-> index_model]

\* collection.drop_index(name).await.unwrap(): a refused drop panics
DropStep(st, name, server_ok) ==
    IF server_ok
    THEN [st EXCEPT !.indexes = DropOnServer(st.indexes, name),
                    !.log = Append(st.log, DropCommand(name))]
    ELSE [st EXCEPT !.log = Append(st.log, DropCommand(name)), !.panic = TRUE]

\* collection.create_index(index_model).await, its Result dropped or printed
CreateStep(st, index, server_ok) ==
    LET index_model == ToIndexModel(index)
        reply == CreateOnServer(st.indexes, index_model)
    IN [st EXCEPT !.indexes = IF server_ok THEN reply.indexes ELSE st.indexes,
                  !.log = Append(st.log, CreateCommand(index_model))]

\* `if result != &our_format_index`
Differs(index, index_model) == index # from_index_model(index_model)

\* One turn of `while let Some(Ok(index)) = cursor.next().await`
ReviewOne(st, index_model, server_ok) ==
    IF st.panic \/ IsIdIndex(index_model) THEN st
    ELSE LET name == index_model.name
             found == FindDeclared(name)
             our_index == declared[CHOOSE i \in found : \A j \in found : i <= j]
             dropped == DropStep(st, name, server_ok)
             after == IF found = {} THEN dropped
                      ELSE IF Differs(our_index, index_model)
                           THEN IF dropped.panic THEN dropped
                                ELSE CreateStep(dropped, our_index, server_ok)
                           ELSE st
         IN IF after.panic THEN after
            ELSE [after EXCEPT !.reviewed = Append(after.reviewed, name)]

\* The review loop over the first n indexes the cursor lists
RECURSIVE Review(_, _, _, _)
Review(st, listed, n, server_ok) ==
    IF n = 0 THEN st
    ELSE ReviewOne(Review(st, listed, n - 1, server_ok), listed[n], server_ok)

\* `// ignore primary`: a single-key index on the field stored as `_id`
IgnoredPrimary(index) ==
    Len(index.items) = 1 /\ field(index.items[1].field).column_name = "_id"

\* One turn of `for index in model.indexes()`
CreateOne(st, index, server_ok) ==
    IF st.panic THEN st
    ELSE IF \E i \in DOMAIN st.reviewed : st.reviewed[i] = index.name THEN st
    ELSE IF IgnoredPrimary(index) THEN st
    ELSE CreateStep(st, index, server_ok)

\* The creation loop over the first n declared indexes
RECURSIVE CreateMissing(_, _, _)
CreateMissing(st, n, server_ok) ==
    IF n = 0 THEN st
    ELSE CreateOne(CreateMissing(st, n - 1, server_ok), declared[n], server_ok)

\* MongoDBTransaction::migrate for one model, a sessionless run of index
\* commands on any handle; commands keeps one command log per run.
Migrate(h, reset_database, list_ok, server_ok) ==
    /\ h \in Handles
    /\ result.kind # "panic"
    /\ Len(commands) < MaxRuns
    /\ LET before == IF reset_database /\ server_ok THEN <<>> ELSE live
           start == [indexes |-> before, log |-> <<>>, reviewed |-> <<>>, panic |-> FALSE]
           reviewed == IF list_ok /\ server_ok
                       THEN Review(start, before, Len(before), server_ok)
                       ELSE start
           done == CreateMissing(reviewed, Len(declared), server_ok)
       IN /\ live' = done.indexes
          /\ commands' = Append(commands, done.log)
          /\ result' = IF done.panic THEN Panicked ELSE Ok
          /\ sent' = [op |-> "migrate", session |-> None,
                      reset_database |-> reset_database,
                      reply |-> [ok |-> list_ok /\ server_ok]]
    /\ UNCHANGED <<lifecycle_vars, is_new, keys_for_save, value, property_value,
                   atomic_updater_map, stored, buckets, declared, query_vars, codec_vars>>

\* The connection as MongoDBConnection::new leaves it: no handle yet.
ConnectionInit ==
    /\ \E session_ok, start_ok, insert_ok, commit_ok \in BOOLEAN :
         supports_transaction = test_transaction_support(session_ok, start_ok, insert_ok, commit_ok)
    /\ handles = <<>>
    /\ flags = <<>>
    /\ sessions = <<>>
    /\ store = [t \in {None} |-> 0]
    /\ issued = 0
    /\ inflight = <<>>
    /\ commit_returned = {}

\* No object is being saved.
NoObject ==
    /\ is_new = TRUE
    /\ keys_for_save = <<>>
    /\ value = <<>>
    /\ property_value = <<>>
    /\ atomic_updater_map = <<>>
    /\ stored = <<>>
    /\ buckets = NoBuckets
    /\ sent = NoSend
    /\ result = NoResult

Init == ConnectionInit /\ NoObject /\ NoQuery /\ NoMigration /\ NoCodec

Next ==
    \/ transaction /\ UNCHANGED <<object_vars, work_vars>>
    \/ no_transaction /\ UNCHANGED <<object_vars, work_vars>>
    \/ \E h \in Handles : spawn(h) /\ UNCHANGED <<object_vars, work_vars>>
    \/ \E h \in Handles : save_object(h) /\ UNCHANGED <<object_vars, work_vars>>
    \/ \E h \in Handles : delete_object(h) /\ UNCHANGED <<object_vars, work_vars>>
    \/ \E h \in Handles : aggregate_to_documents(h) /\ UNCHANGED <<object_vars, work_vars>>
    \/ \E h \in Handles : migrate(h) /\ UNCHANGED <<object_vars, work_vars>>
    \/ \E h \in Handles : purge(h) /\ UNCHANGED <<object_vars, work_vars>>
    \/ \E h \in Handles : commit(h) /\ UNCHANGED <<object_vars, work_vars>>
    \/ \E h \in Handles : abort(h) /\ UNCHANGED <<object_vars, work_vars>>
    \/ \E s \in DOMAIN sessions : DriverReturn(s) /\ UNCHANGED <<object_vars, work_vars>>

Spec == Init /\ [][Next]_vars

\* One handle, a finder, and the stream the pipeline will emit for it
QueryInit ==
    /\ OneHandle
    /\ NoObject
    /\ finder \in Finders
    /\ cursor \in UNION {[1..n -> CursorItems] : n \in 0..MaxRows}
    /\ NoMigration /\ NoCodec

QueryNext ==
    \/ \E h \in Handles : find_many(h)
    \/ \E h \in Handles : aggregate(h)
    \/ \E h \in Handles : sql(h)
    \/ \E h \in Handles : query_raw(h)

SpecQuery == QueryInit /\ [][QueryNext]_vars

\* ------------------------------------------------------ migration inputs
Item(name, sort) == [field |-> name, sort |-> sort]
Index(type, name, items) == [name |-> name, type |-> type, items |-> items]
IndexModel(name, keys, unique) == [name |-> name, keys |-> keys, unique |-> unique]

\* The indexes a model over Fields can declare: the primary index on id, an
\* index of each kind on age, a unique index on score (stored as column s).
DeclaredIndexes ==
    {Index("Primary", "pk", <<Item("id", "Asc")>>),
     Index("Unique", "byScore", <<Item("score", "Asc")>>)}
    \cup {Index(type, "byAge", <<Item("age", "Asc")>>) : type \in {"Primary", "Unique", "Index"}}
    \cup {Index("Index", "pair", <<Item("age", "Desc"), Item("tags", "Asc")>>)}

\* The implicit index every existing collection carries
IdIndex == IndexModel("_id_", << <<"_id", 1>> >>, <<>>)

\* Indexes a collection can carry besides the implicit one
LiveIndexes ==
    {IndexModel("byAge", << <<"age", 1>> >>, <<>>),
     IndexModel("byAge", << <<"age", 1>> >>, <<TRUE>>),
     IndexModel("byAge", << <<"age", 0 - 1>> >>, <<FALSE>>),
     IndexModel("old", << <<"age", 1>> >>, <<FALSE>>),
     IndexModel("byScore", << <<"s", 1>> >>, <<TRUE>>),
     IndexModel("pk", << <<"age", 1>> >>, <<TRUE>>),
     IndexModel("pair", << <<"age", 0 - 1>>, <<"tags", 1>> >>, <<FALSE>>)}

\* Sequences without a repeated name
DistinctNames(s) == \A i, j \in DOMAIN s : s[i].name = s[j].name => i = j

\* The server keeps names and key patterns unique within a collection
DistinctKeys(s) == \A i, j \in DOMAIN s : s[i].keys = s[j].keys => i = j

DeclaredChoices ==
    {s \in UNION {[1..n -> DeclaredIndexes] : n \in 0..MaxDeclared} : DistinctNames(s)}

LiveChoices ==
    {<<>>} \cup
    {<<IdIndex>> \o s : s \in
        {x \in UNION {[1..n -> LiveIndexes] : n \in 0..MaxLive} :
            DistinctNames(x) /\ DistinctKeys(x)}}

MigrateInit ==
    /\ OneHandle
    /\ NoObject
    /\ NoQuery
    /\ NoCodec
    /\ declared \in DeclaredChoices
    /\ live \in LiveChoices
    /\ commands = <<>>

MigrateNext ==
    \E h \in Handles : \E reset_database, list_ok, server_ok \in BOOLEAN :
        Migrate(h, reset_database, list_ok, server_ok)

SpecMigrate == MigrateInit /\ [][MigrateNext]_vars

\* ----------------------------------------------------------- codec inputs
\* A value of each declared type but Decimal; arrays hold ArrayInner values,
\* and the two booleans are numbered like every other payload.
ValuesOf(type) ==
    CASE type = "ObjectId"    -> {[tag |-> "ObjectId", v |-> n] : n \in 1..2}
      [] type = "Bool"        -> {[tag |-> "Bool", v |-> b] : b \in 0..1}
      [] type = "Int"         -> {[tag |-> "Int", v |-> n] : n \in 0..MaxLen}
      [] type = "Int64"       -> {[tag |-> "Int64", v |-> n] : n \in 0..MaxLen}
      [] type = "Float32"     -> {[tag |-> "Float32", v |-> n * FloatStep] : n \in 0..MaxLen}
      [] type = "Float"       -> {[tag |-> "Float", v |-> n] : n \in 0..MaxLen}
      [] type = "String"      -> {[tag |-> "String", v |-> n] : n \in 1..3}
      [] type = "Date"        -> {[tag |-> "Date", v |-> n] : n \in 0..MaxLen}
      [] type = "DateTime"    -> {[tag |-> "DateTime", v |-> n * NanosPerMilli + k] :
                                     n \in 0..MaxLen, k \in {0, 1}}
      [] type = "EnumVariant" -> {[tag |-> "EnumVariant", v |-> n] : n \in EnumMembers}
      [] type = "Array"       -> {[tag |-> "Array", v |-> s] : s \in
                                     UNION {[1..n -> {[tag |-> "Int", v |-> k] : k \in 0..1}] :
                                            n \in 0..MaxLen}}
      [] type = "Dictionary"  -> {[tag |-> "Dictionary",
                                   v |-> [k \in {"a"} |-> [tag |-> "Int", v |-> n]]] : n \in 0..1}

Types == {"ObjectId", "Bool", "Int", "Int64", "Float32", "Float", "String",
          "Date", "DateTime", "EnumVariant", "Array", "Dictionary"}

\* BSON values a stored document can hold for a field, whatever its declared
\* type: scalars of every tag (a string that is an enum member and one that
\* is not), arrays and documents with and without an element of another tag.
StoredBson(shape) ==
    CASE shape = "scalar" ->
            {BsonNull, [tag |-> "ObjectId", v |-> 1], [tag |-> "Boolean", v |-> 1],
             [tag |-> "Int32", v |-> 1], [tag |-> "Int64", v |-> 1],
             [tag |-> "Double", v |-> 1], [tag |-> "DateTime", v |-> 1],
             [tag |-> "String", v |-> 1], [tag |-> "String", v |-> 3]}
      [] shape = "array" ->
            {[tag |-> "Array", v |-> s] : s \in
                UNION {[1..n -> {BsonNull, [tag |-> "Int32", v |-> 1], [tag |-> "String", v |-> 1]}] :
                       n \in 0..MaxLen}}
      [] OTHER ->
            {[tag |-> "Document", v |-> [k \in {"a"} |-> b]] :
                b \in {[tag |-> "Int32", v |-> 1], [tag |-> "String", v |-> 1]}}

\* BsonCoder::encode of one value at its declared type
Encode ==
    /\ coded # <<>>
    /\ coded[1].bson = <<>>
    /\ coded' = <<[coded[1] EXCEPT !.bson = <<encode(coded[1].type, coded[1].value)>>]>>
    /\ UNCHANGED <<lifecycle_vars, object_vars, query_vars, migration_vars>>

\* BsonCoder::decode of the encoded value at the same type
Decode ==
    /\ coded # <<>>
    /\ coded[1].bson # <<>>
    /\ coded[1].decoded = <<>>
    /\ coded' = <<[coded[1] EXCEPT
                     !.decoded = <<decode(coded[1].type, coded[1].optional, coded[1].bson[1])>>]>>
    /\ UNCHANGED <<lifecycle_vars, object_vars, query_vars, migration_vars>>

Uncoded(type, optional, val) ==
    [type |-> type, optional |-> optional, value |-> val, bson |-> <<>>, decoded |-> <<>>]

CodecInit ==
    /\ OneHandle
    /\ NoObject
    /\ NoQuery
    /\ NoMigration
    /\ \E type \in Types : \E optional \in BOOLEAN :
         \/ \E val \in ValuesOf(type) : coded = <<Uncoded(type, optional, val)>>
         \/ optional /\ coded = <<Uncoded(type, optional, Null)>>
         \/ \E shape \in {"scalar", "array", "document"} : \E bson \in StoredBson(shape) :
              coded = <<[Uncoded(type, optional, Null) EXCEPT !.bson = <<bson>>]>>

CodecNext == Encode \/ Decode

SpecCodec == CodecInit /\ [][CodecNext]_vars

\* ------------------------------------------------------- lifecycle claims
\* C1 (as claimed): on a handle that owns a session, once commit() has
\* returned Ok, is_committed() is true.
C1_CommitSetsCommitted ==
    \A h \in commit_returned : is_committed(h)

\* C2 (as claimed): session() yields a session iff the handle owns one and
\* committed is false, and a handle whose commit() has returned Ok sends its
\* later writes and aggregations without the session.
C2_SessionlessAfterCommit ==
    /\ \A h \in Handles :
         (session(h) # None) <=> (handles[h].owned_session # None /\ ~is_committed(h))
    /\ \A s \in DOMAIN inflight :
         inflight[s].op \in {"save_object", "delete_object", "aggregate"}
            => inflight[s].handle \notin commit_returned

\* C3: a committed cell is created false and never goes from true to false,
\* whatever handler runs on the handle or on its clones.
C3_CommittedWriteOnce ==
    [][ /\ \A f \in DOMAIN flags : flags[f] => flags'[f]
        /\ \A f \in DOMAIN flags' : f \notin DOMAIN flags => ~flags'[f] ]_vars

C3_Witness ==
    /\ commit_returned # {}
    /\ \E h \in Handles : handles[h].via = "spawn" /\ ~is_committed(h)

\* C4: transaction() gives a handle owning a session with its transaction
\* started iff the probe found support, otherwise the session-less handle of
\* no_transaction(); both start with committed false, a session-less handle
\* never has a call on a session, and owned_session (so is_transaction())
\* stays what it was at creation.
C4_HandleKinds ==
    \A h \in Handles :
        /\ handles[h].via = "transaction" => (is_transaction(h) <=> supports_transaction)
        /\ handles[h].via = "no_transaction" => ~is_transaction(h)
        /\ ~is_transaction(h) =>
              /\ session(h) = None
              /\ \A s \in DOMAIN inflight : inflight[s].handle # h

C4_HandleSteps ==
    /\ \A h \in DOMAIN handles' :
         IF h \in Handles
         THEN handles'[h] = handles[h]
         ELSE /\ ~flags'[handles'[h].committed]
              /\ (handles'[h].via = "transaction" /\ handles'[h].owned_session # None)
                   => sessions'[handles'[h].owned_session].state = "in_progress"
    /\ Handles \subseteq DOMAIN handles'

C4_TransactionOrDowngrade == []C4_HandleKinds /\ [][C4_HandleSteps]_vars

C4_Witness ==
    \E h \in commit_returned :
        /\ handles[h].via = "transaction"
        /\ is_transaction(h)
        /\ sessions[handles[h].owned_session].state = "committed"

\* C5: a write issued inside an open transaction is visible only once that
\* transaction is committed (so never after an abort), and the commit makes
\* every acknowledged write of the transaction visible.
C5_Atomic ==
    \A s \in DOMAIN sessions :
        /\ store[s] > 0 => sessions[s].state = "committed"
        /\ sessions[s].pending > 0 => sessions[s].state = "in_progress"

C5_CommitStep ==
    \A s \in DOMAIN sessions :
        (sessions[s].state = "in_progress" /\ sessions'[s].state = "committed")
            => store'[s] = store[s] + sessions[s].pending

C5_TransactionAtomicity == []C5_Atomic /\ [][C5_CommitStep]_vars

C5_Witness ==
    /\ \E s \in DOMAIN sessions : sessions[s].state = "committed" /\ store[s] = MaxWrites
    /\ \E s \in DOMAIN sessions : sessions[s].state = "aborted"

\* C6 (as claimed): handles on one session share the committed cell, and a
\* commit() that returned Ok through one of them is seen by is_committed()
\* and session() of the others.
C6_SpawnSeesCommit ==
    \A h \in commit_returned : \A h2 \in Handles :
        handles[h2].owned_session = handles[h].owned_session
            => /\ handles[h2].committed = handles[h].committed
               /\ is_committed(h2)
               /\ session(h2) = None

\* C7: two transaction() calls never share a session or a committed cell; a
\* call in flight on one session never keeps a handle of another session from
\* issuing its call; and a commit or abort answered on one session leaves
\* every other session and every committed cell as it was.
C7_Independent ==
    /\ \A h1, h2 \in Handles :
         (h1 # h2 /\ handles[h1].via = "transaction" /\ handles[h2].via = "transaction"
            /\ is_transaction(h1) /\ is_transaction(h2))
         => /\ handles[h1].owned_session # handles[h2].owned_session
            /\ handles[h1].committed # handles[h2].committed
    /\ \A h \in Handles :
         (is_transaction(h) /\ inflight[handles[h].owned_session] = NoCall)
            => ENABLED commit(h) /\ ENABLED abort(h)

C7_EndStep ==
    \A s \in DOMAIN sessions :
        (inflight[s].op \in {"commit", "abort"} /\ inflight'[s] = NoCall)
            => /\ \A s2 \in DOMAIN sessions : s2 # s =>
                     /\ sessions'[s2] = sessions[s2]
                     /\ inflight'[s2] = inflight[s2]
               /\ flags' = flags

C7_DistinctTransactions == []C7_Independent /\ [][C7_EndStep]_vars

C7_Witness ==
    \E s1, s2 \in DOMAIN sessions :
        /\ s1 # s2
        /\ inflight[s1].op = "commit"
        /\ inflight[s2].op \in {"save_object", "delete_object"}

\* ------------------------------------------------------------------- C8
\* C8: the document create sends holds the storage key of a saved field (its
\* column name) or property (its name) exactly when the BSON encoded for its
\* value is not Null, holds that BSON under it, and holds no other key.
C8_NullElision ==
    [][(sent.op = "none" /\ sent'.op = "insert_one") =>
         LET StorageKey(key) == IF key \in FieldNames THEN field(key).column_name ELSE key
             Encoded(key) == IF key \in FieldNames
                             THEN encode(field(key).type, value[key])
                             ELSE encode(property(key).type, property_value[key])
             saved == {keys_for_save[i] : i \in DOMAIN keys_for_save}
         IN /\ \A key \in saved :
                 /\ StorageKey(key) \in DOMAIN sent'.doc <=> Encoded(key) # BsonNull
                 /\ StorageKey(key) \in DOMAIN sent'.doc
                      => sent'.doc[StorageKey(key)] = Encoded(key)
            /\ \A k \in DOMAIN sent'.doc : \E key \in saved : StorageKey(key) = k]_vars

\* C8 witness: an insert was sent whose document leaves out a saved Int field
\* holding an Int64 (encoded as Null) and a saved Null array, and holds the
\* saved auto field under its column and the saved property under its name.
C8_Witness ==
    /\ sent.op = "insert_one"
    /\ \E i \in DOMAIN keys_for_save : keys_for_save[i] = "age"
    /\ \E i \in DOMAIN keys_for_save : keys_for_save[i] = "tags"
    /\ value["age"].tag = "Int64"
    /\ value["tags"] = Null
    /\ DOMAIN sent.doc = {"s", "len"}

\* ------------------------------------------------------------------- C9
\* C9: after a successful insert every auto key whose column is `_id` holds
\* the value decoded from inserted_id under its runtime name, every other
\* value of the object is unchanged and the save succeeds; after a failed
\* insert no value is changed and the translated write error is returned.
C9_InsertFrame ==
    [][(sent.op = "none" /\ sent'.op = "insert_one") =>
         LET id_keys == {k \in FieldNames :
                           /\ \E i \in DOMAIN auto_keys : auto_keys[i] = k
                           /\ field(k).column_name = "_id"}
             ek == sent'.reply.error_kind
         IN IF sent'.reply.ok
            THEN /\ result' = Ok
                 /\ \A k \in FieldNames :
                      value'[k] = IF k \in id_keys
                                  THEN decode(field(k).type, field(k).optional,
                                              sent'.reply.inserted_id).value
                                  ELSE value[k]
                 /\ property_value' = property_value
            ELSE /\ value' = value
                 /\ property_value' = property_value
                 /\ result'.kind = "err"
                 /\ result'.error.name =
                      IF ek.kind = "Write" /\ ek.failure = "WriteError" /\ ek.code = DuplicateKey
                      THEN "unique_value_duplicated"
                      ELSE "unknown_database_write_error"]_vars

\* ------------------------------------------------------------------ C10
\* C10: once update has collected its buckets, every key of keys_for_save
\* has an entry in exactly one of set, unset, inc, mul and push, the buckets
\* hold no other entry, and the update document sent holds a bucket under
\* its operator exactly when the bucket is not empty (nothing is sent when
\* all are empty).
C10_UpdateRouting ==
    buckets # NoBuckets =>
      LET names == {"set", "unset", "inc", "mul", "push"}
          Operator(n) == CASE n = "set" -> "$set" [] n = "unset" -> "$unset"
                           [] n = "inc" -> "$inc" [] n = "mul" -> "$mul" [] OTHER -> "$push"
          EntryKeys(key) == IF key \in FieldNames THEN {key, field(key).column_name} ELSE {key}
          Holding(key) == {n \in names : EntryKeys(key) \cap DOMAIN buckets[n] # {}}
          saved == {keys_for_save[i] : i \in DOMAIN keys_for_save}
      IN /\ \A key \in saved : Cardinality(Holding(key)) = 1
         /\ \A n \in names : \A k \in DOMAIN buckets[n] : \E key \in saved : k \in EntryKeys(key)
         /\ \A n \in names : Cardinality(DOMAIN buckets[n])
                               = Cardinality({key \in saved : n \in Holding(key)})
         /\ IF sent.op = "none"
            THEN \A n \in names : buckets[n] = EmptyDoc
            ELSE /\ sent.op \in {"update_one", "find_one_and_update"}
                 /\ \A n \in names :
                      /\ Operator(n) \in DOMAIN sent.doc <=> buckets[n] # EmptyDoc
                      /\ Operator(n) \in DOMAIN sent.doc => sent.doc[Operator(n)] = buckets[n]

\* C10 witness: an update of four keys was sent with exactly $set, $inc and
\* $push: two buckets empty and absent, one bucket with two entries.
C10_Witness ==
    /\ buckets # NoBuckets
    /\ Len(keys_for_save) = 4
    /\ sent.op = "find_one_and_update"
    /\ DOMAIN sent.doc = {"$set", "$inc", "$push"}
    /\ Cardinality(DOMAIN buckets.inc) = 2

\* ------------------------------------------------------------------ C11
\* C11: after update took the findOneAndUpdate path and returned success,
\* every key of the atomic-updator map holds on the object the value decoded
\* from what the returned document stores for that field, that is under the
\* field's column.
C11_ReturnNewCorrect ==
    (sent.op = "find_one_and_update" /\ result = Ok) =>
        \A key \in DOMAIN atomic_updater_map :
            /\ field(key).column_name \in DOMAIN sent.reply.updated_document[1]
            /\ value[key] = decode(field(key).type, field(key).optional,
                                   sent.reply.updated_document[1][field(key).column_name]).value

\* ------------------------------------------------------------------ C20
\* C20: once update has collected its buckets it sends findOneAndUpdate with
\* returnDocument After exactly when $inc, $mul or $push is not empty, a
\* plain updateOne exactly when only $set / $unset are not empty, and with
\* every bucket empty it sends nothing and returns success; a sending update
\* makes exactly one driver call.
C20_ReturnNewDecision ==
    buckets # NoBuckets =>
      LET atomic == buckets.inc # EmptyDoc \/ buckets.mul # EmptyDoc \/ buckets.push # EmptyDoc
          plain == buckets.set # EmptyDoc \/ buckets.unset # EmptyDoc
      IN /\ sent.op = "find_one_and_update" <=> atomic
         /\ sent.op = "find_one_and_update" => sent.return_document = "After"
         /\ sent.op = "update_one" <=> (~atomic /\ plain)
         /\ sent.op = "update_one" => sent.return_document = ""
         /\ (~atomic /\ ~plain) => (sent = NoSend /\ result = Ok /\ issued = 0)
         /\ sent # NoSend => issued = 1

\* C20 witness: an update with $set and $push but neither $inc nor $mul went
\* out as findOneAndUpdate.
C20_Witness ==
    /\ buckets # NoBuckets
    /\ sent.op = "find_one_and_update"
    /\ buckets.inc = EmptyDoc /\ buckets.mul = EmptyDoc
    /\ buckets.push # EmptyDoc /\ buckets.set # EmptyDoc

\* ------------------------------------------------------------------ C12
\* C12: delete_object on a new object returns
\* object_is_not_saved_thus_cant_be_deleted(path) and makes no driver call;
\* on a saved object it makes exactly one delete_one call selected by the
\* object's identifier and returns success, or unknown_database_delete_error
\* when the call fails.
C12_Delete ==
    result # NoResult =>
      IF is_new
      THEN /\ sent = NoSend
           /\ issued = 0
           /\ result.kind = "err"
           /\ result.error.name = "object_is_not_saved_thus_cant_be_deleted"
           /\ result.error.path = KeyPath
      ELSE /\ sent.op = "delete_one"
           /\ issued = 1
           /\ sent.filter = [k \in {"_id"} |-> teon_value_to_bson(value["id"])]
           /\ sent.reply.ok => result = Ok
           /\ ~sent.reply.ok => /\ result.kind = "err"
                                /\ result.error.name = "unknown_database_delete_error"
                                /\ result.error.path = KeyPath

\* C12 witness: a delete_one was sent for a saved object, failed in the
\* driver and came back as an error.
C12_Witness ==
    /\ ~is_new
    /\ sent.op = "delete_one"
    /\ ~sent.reply.ok
    /\ result.kind = "err"

\* ------------------------------------------------------------------ C13
\* C13: when the aggregation succeeds and every emitted document
\* materializes, find_many returns one object per document: the i-th object
\* is the i-th document without a negative take, and the i-th from the end
\* with one.
C13_FindManyOrder ==
    (sent.op = "aggregate" /\ sent.caller = "find_many") =>
      LET n == Len(cursor)
          negative == "take" \in DOMAIN finder /\ finder["take"].v < 0
          good == /\ sent.reply.ok
                  /\ \A i \in 1..n : cursor[i].ok /\ document_to_object(cursor[i].doc).ok
      IN /\ good => result.kind = "ok"
         /\ result.kind = "ok" =>
              /\ Len(result.value) = n
              /\ \A i \in 1..n :
                   result.value[i] =
                     document_to_object(cursor[IF negative THEN n + 1 - i ELSE i].doc).object

\* C13 witness: find_many with a negative take returned two different objects.
C13_Witness ==
    /\ sent.op = "aggregate" /\ sent.caller = "find_many"
    /\ "take" \in DOMAIN finder /\ finder["take"].v < 0
    /\ result.kind = "ok"
    /\ Len(result.value) = 2
    /\ result.value[1] # result.value[2]

\* ------------------------------------------------------------------ C14
\* C14: aggregate answers an empty result with one sub-dictionary per
\* aggregation group of the finder (0 under _count, Null under any other
\* group) whatever other keys the finder carries, and a result with rows
\* with the first decoded row.
C14_AggregateShape ==
    (sent.op = "aggregate" /\ sent.caller = "aggregate" /\ sent.reply.ok) =>
      IF cursor = <<>>
      THEN LET groups == {g \in DOMAIN finder : starts_with_underscore(g)} IN
           /\ result.kind = "ok"
           /\ result.value =
                Dictionary([g \in groups |->
                    Dictionary([k \in DOMAIN finder[g].v |->
                        IF g = "_count" THEN [tag |-> "Int", v |-> 0] ELSE Null])])
      ELSE result.kind = "ok" => result.value = RowValue(cursor[1].doc).value

\* ------------------------------------------------------------------ C15
\* C15: sql and query_raw both return the runtime error "do not run raw sql
\* on MongoDB database", make no driver call and leave the transaction as
\* it was.
C15_RawSqlFails ==
    [][(\E h \in Handles : sql(h) \/ query_raw(h)) =>
         /\ result'.kind = "err"
         /\ result'.error.message = "do not run raw sql on MongoDB database"
         /\ sent' = sent
         /\ UNCHANGED lifecycle_vars]_vars

\* -------------------------------------------------------- migration claims
\* A step that is one run of migrate in which every driver call was answered
MigrateRan == Len(commands') = Len(commands) + 1 /\ sent'.reply.ok

\* The command log of the run a step makes
RunLog == commands'[Len(commands')]

\* C16 (as claimed): after migrate(models, reset=false) returns, the live
\* indexes other than `_id`, read as declared-format indexes, are exactly the
\* declared indexes (same kind, same ordered items, same name), whatever was
\* live before.
C16_MigrateConverges ==
    [][(MigrateRan /\ ~sent'.reset_database /\ result'.kind = "ok")
         => {from_index_model(live'[i]) : i \in {j \in DOMAIN live' : ~IsIdIndex(live'[j])}}
              = {declared[i] : i \in {j \in DOMAIN declared : ~IgnoredPrimary(declared[j])}}]_vars

\* C17 (as claimed): a second run of migrate right after a run that returned,
\* with the same declared indexes, sends no drop_index and no create_index
\* command and leaves the live indexes as they were, for declared indexes of
\* every kind.
C17_MigrateIdempotent ==
    [][(MigrateRan /\ ~sent'.reset_database /\ Len(commands) >= 1
          /\ sent.reply.ok /\ result.kind = "ok")
         => RunLog = <<>> /\ live' = live]_vars

\* The live indexes a run reviews, the implicit one aside
Reviewed == {live[i] : i \in {j \in DOMAIN live : ~IsIdIndex(live[j])}}

\* The declared index of that name
Namesake(name) == {declared[i] : i \in FindDeclared(name)}

\* C19: in a run of migrate that lists the live indexes, no command drops or
\* creates the implicit `{_id:1}` index; a live index with no declared
\* namesake is dropped; a live index whose declared namesake differs is
\* dropped and then created from the declaration, the drop first; a live
\* index equal to its declared namesake gets no command; and a declared
\* index is created at most once.
C19_ReviewCommands ==
    [][(MigrateRan /\ ~sent'.reset_database) =>
        /\ \A c \in DOMAIN RunLog :
             /\ RunLog[c].op = "drop_index" => RunLog[c].name # IdIndex.name
             /\ RunLog[c].op = "create_index" => ~IsIdIndex(RunLog[c].index)
        /\ \A m \in Reviewed :
             /\ Namesake(m.name) = {} =>
                  \E c \in DOMAIN RunLog : RunLog[c] = DropCommand(m.name)
             /\ \A d \in Namesake(m.name) :
                  IF d = from_index_model(m)
                  THEN \A c \in DOMAIN RunLog :
                         /\ RunLog[c] # DropCommand(m.name)
                         /\ RunLog[c].op = "create_index" => RunLog[c].index.name # m.name
                  ELSE \E c1, c2 \in DOMAIN RunLog :
                         /\ c1 < c2
                         /\ RunLog[c1] = DropCommand(m.name)
                         /\ RunLog[c2] = CreateCommand(ToIndexModel(d))
        /\ \A i \in DOMAIN declared :
             Cardinality({c \in DOMAIN RunLog :
                 /\ RunLog[c].op = "create_index"
                 /\ RunLog[c].index.name = declared[i].name}) <= 1]_vars

\* ------------------------------------------------------------ codec claims
\* C18 (as claimed): for every declared type but Decimal and every value of
\* that type, EnumVariant and Date values included, decoding at that type the
\* BSON that encoding the value gave yields the value again.
C18_RoundTrip ==
    (coded # <<>> /\ coded[1].decoded # <<>> /\ coded[1].value.tag # "Null")
        => coded[1].decoded[1].ok /\ coded[1].decoded[1].value = coded[1].value

\* ------------------------------------------------------------------ C21
\* C21: when update_object runs, every saved field key that carries an atomic
\* updator is in no $set and no $unset and in exactly the bucket of its
\* operator, under its column, with the operand increment and multiply and
\* push were given, the negated operand for decrement, and the absolute value
\* of the reciprocal for divide; the update sent carries these buckets. If a
\* saved field carries any other operator the call does not return normally
\* (it panics unless a property getter failed first) and sends nothing.
C21_AtomicRouting ==
    [][(\E h \in Handles : update_object(h)) =>
        LET saved == {keys_for_save[i] : i \in DOMAIN keys_for_save}
            Atomic == saved \cap FieldNames \cap DOMAIN atomic_updater_map
            Known == {"increment", "decrement", "multiply", "divide", "push"}
            Abs(n) == IF n < 0 THEN 0 - n ELSE n
            To(op) == CASE op \in {"increment", "decrement"} -> "inc"
                        [] op \in {"multiply", "divide"} -> "mul"
                        [] OTHER -> "push"
            Operator(n) == CASE n = "inc" -> "$inc" [] n = "mul" -> "$mul" [] OTHER -> "$push"
            Operand(u) == CASE u.op = "decrement" -> [tag |-> "Int32", v |-> 0 - u.val.v]
                            [] u.op = "divide" -> [tag |-> "Double", v |-> <<1, Abs(u.val.v)>>]
                            [] OTHER -> [tag |-> "Int32", v |-> u.val.v]
            getter == \E k \in saved \cap PropertyNames : property_value[k] = GetterError
        IN IF \E key \in Atomic : atomic_updater_map[key].op \notin Known
           THEN /\ sent' = sent /\ stored' = stored /\ issued' = issued
                /\ result'.kind \in {"panic", "err"}
                /\ ~getter => result' = Panicked
           ELSE /\ ~getter => buckets' # NoBuckets
                /\ buckets' # NoBuckets =>
                     \A key \in Atomic :
                       LET u == atomic_updater_map[key]
                           col == field(key).column_name
                       IN /\ {key, col} \cap (DOMAIN buckets'.set \cup DOMAIN buckets'.unset) = {}
                          /\ \A n \in {"inc", "mul", "push"} :
                               col \in DOMAIN buckets'[n] <=> n = To(u.op)
                          /\ buckets'[To(u.op)][col] = Operand(u)
                          /\ sent'.op = "find_one_and_update"
                          /\ sent'.doc[Operator(To(u.op))][col] = Operand(u)]_vars

\* C21 witness: an update was sent whose $mul holds, under column s, the
\* reciprocal 1/1 of the negative divisor carried for score.
C21_Witness ==
    /\ buckets # NoBuckets
    /\ "score" \in DOMAIN atomic_updater_map
    /\ atomic_updater_map["score"].op = "divide"
    /\ atomic_updater_map["score"].val.v < 0
    /\ sent.op = "find_one_and_update"
    /\ "$mul" \in DOMAIN sent.doc
    /\ sent.doc["$mul"]["s"] = [tag |-> "Double", v |-> <<1, 1>>]

\* ------------------------------------------------------------------ C22
\* C22 (as claimed): whenever a write fails the handler returns a host error,
\* for every driver error kind: a write error of code 11000 gives
\* unique_value_duplicated, at path + the runtime name of the field whose
\* column the message names when there is such a field, at path otherwise;
\* every other kind gives unknown_database_write_error at path.
C22_TranslatorTotal ==
    (sent.op \in {"insert_one", "update_one", "find_one_and_update"} /\ ~sent.reply.ok) =>
        LET ek == sent.reply.error_kind
            named == {f \in FieldNames :
                        /\ regex(ek.message).matched
                        /\ field(f).column_name = regex(ek.message).group}
        IN /\ result.kind = "err"
           /\ IF ek.kind = "Write" /\ ek.failure = "WriteError" /\ ek.code = DuplicateKey
              THEN /\ result.error.name = "unique_value_duplicated"
                   /\ IF named # {}
                      THEN \E f \in named : result.error.path = Append(KeyPath, f)
                      ELSE result.error.path = KeyPath
              ELSE /\ result.error.name = "unknown_database_write_error"
                   /\ result.error.path = KeyPath

\* ------------------------------------------------------------------ C23
\* C23 (as claimed): decode gives Null for a BSON Null when optional; else,
\* for a BSON value of another tag than the declared type's, the decoding
\* error at the path with the type's expected tag; for a string that is no
\* member of the enum, the error naming the enum path; for an array or a
\* document with an element of a wrong tag, the error at path + index or
\* path + key; and in every other case a value whose tag is the declared
\* type's tag.
C23_DecodeTagged ==
    (coded # <<>> /\ coded[1].decoded # <<>>) =>
        LET type == coded[1].type
            bson == coded[1].bson[1]
            d == coded[1].decoded[1]
            BsonTag == CASE type = "Bool" -> "Boolean" [] type = "Int" -> "Int32"
                         [] type \in {"Float32", "Float"} -> "Double"
                         [] type \in {"Date", "DateTime"} -> "DateTime"
                         [] type = "EnumVariant" -> "String"
                         [] type = "Dictionary" -> "Document"
                         [] OTHER -> type
            Expected == CASE type = "ObjectId" -> "object id" [] type = "Bool" -> "bool"
                          [] type = "Int" -> "int 32" [] type = "Int64" -> "int 64"
                          [] type \in {"Float32", "Float"} -> "double"
                          [] type \in {"Date", "DateTime"} -> "datetime"
                          [] type = "Array" -> "array" [] type = "Dictionary" -> "document"
                          [] OTHER -> "string"
            Failed(path, expected) == ~d.ok /\ d.path = path /\ d.expected = expected
            wrong == IF type \in {"Array", "Dictionary"} /\ bson.tag = BsonTag
                     THEN {k \in DOMAIN bson.v : bson.v[k].tag # "Int32"} ELSE {}
        IN IF bson.tag = "Null" /\ coded[1].optional THEN d.ok /\ d.value.tag = "Null"
           ELSE IF bson.tag # BsonTag THEN Failed(<<>>, Expected)
           ELSE IF type = "EnumVariant" /\ bson.v \notin EnumMembers THEN Failed(<<>>, "enum path")
           ELSE IF type = "Array" /\ wrong # {}
                THEN \E i \in wrong : (\A j \in wrong : i <= j) /\ Failed(<<i - 1>>, "int 32")
           ELSE IF type = "Dictionary" /\ wrong # {}
                THEN \E k \in wrong : Failed(<<k>>, "int 32")
           ELSE d.ok /\ d.value.tag = type

\* ------------------------------------------------------------------ C24
\* C24 (as claimed): every write keys a field by its column: no document
\* sent by create and no $set, $unset, $inc, $mul or $push sent by update has
\* an entry under the runtime name of a field whose column differs from it,
\* and after findOneAndUpdate returned a document that holds the column of
\* every key with an atomic updator, the read-back finds them (no panic).
C24_StorageKey ==
    LET renamed == {f \in FieldNames : field(f).column_name # f}
        atomic == DOMAIN atomic_updater_map
    IN /\ sent.op = "insert_one" => DOMAIN sent.doc \cap renamed = {}
       /\ sent.op \in {"update_one", "find_one_and_update"} =>
            \A o \in DOMAIN sent.doc : DOMAIN sent.doc[o] \cap renamed = {}
       /\ (/\ sent.op = "find_one_and_update"
           /\ sent.reply.ok
           /\ sent.reply.updated_document # <<>>
           /\ \A key \in atomic :
                field(key).column_name \in DOMAIN sent.reply.updated_document[1])
            => result.kind # "panic"

====
